---- MODULE Spec2Model ----
(***************************************************************************)
(* The external process runner of cursor-openai-bridge (lib/process.ts):   *)
(* run(cmd, args, opts) with its Windows resolution step                    *)
(* resolveWindowsCursorAgent, and the load of opencode-plugin-cursor        *)
(* (index.ts): getCursorAgentBin, resolveWorkspaceRoot and the start of the *)
(* bridge process.                                                          *)
(*                                                                         *)
(* One step of the model is one turn of the single-threaded event loop:    *)
(* the synchronous code of run up to its next await, or one listener       *)
(* called for one event of a child process or of a timer.  Strings are     *)
(* TLA+ strings, taken apart with Len and SubSeq.  JavaScript values that   *)
(* may be undefined, null or NaN are records [t |-> type tag, v |-> value]. *)
(***************************************************************************)
EXTENDS Integers, Sequences, FiniteSets, TLC

(* ---------------------------------------------------------------- bounds *)

\* Number of run invocations that may be in flight together.
NInv == 2

\* Chunks of output a child writes at most, over both of its streams.
MaxChunks == 2

\* Chunks of output the `where` lookup writes at most.
MaxWhereChunks == 1

Invs == 1 .. NInv
Pids == 1 .. NInv

(* ------------------------------------------------------ JavaScript values *)

Undefined == [t |-> "undefined", v |-> 0]
Null == [t |-> "null", v |-> 0]
NaN == [t |-> "nan", v |-> 0]
Num(n) == [t |-> "number", v |-> n]
NoString == [t |-> "undefined", v |-> ""]
Str(s) == [t |-> "string", v |-> s]

\* typeof x === "number" (NaN is a number)
IsNumber(x) == x.t \in {"number", "nan"}

\* x > 0 (false for NaN and for anything that is not a positive number)
GreaterThanZero(x) == x.t = "number" /\ x.v > 0

\* truthiness of an optional string: undefined and "" are falsy
TruthyStr(x) == x.t = "string" /\ x.v # ""

\* x ?? d
Coalesce(x, d) == IF x.t \in {"null", "undefined"} THEN d ELSE x

(* ---------------------------------------------------------------- strings *)

CharAt(s, i) == SubSeq(s, i, i)

EndsWith(s, suf) ==
  /\ Len(s) >= Len(suf)
  /\ SubSeq(s, Len(s) - Len(suf) + 1, Len(s)) = suf

Includes(s, sub) ==
  \E i \in 1 .. (Len(s) - Len(sub) + 1) : SubSeq(s, i, i + Len(sub) - 1) = sub

WhiteSpace == {" ", "\t", "\n", "\r"}

RECURSIVE TrimStart(_)
TrimStart(s) ==
  IF Len(s) > 0 /\ CharAt(s, 1) \in WhiteSpace
  THEN TrimStart(SubSeq(s, 2, Len(s)))
  ELSE s

RECURSIVE TrimEnd(_)
TrimEnd(s) ==
  IF Len(s) > 0 /\ CharAt(s, Len(s)) \in WhiteSpace
  THEN TrimEnd(SubSeq(s, 1, Len(s) - 1))
  ELSE s

\* String.prototype.trim
Trim(s) == TrimEnd(TrimStart(s))

\* s.split(/\r?\n/)[0]: the text before the first line break
FirstLine(s) ==
  IF \E i \in 1 .. Len(s) : CharAt(s, i) = "\n"
  THEN LET n == CHOOSE i \in 1 .. Len(s) :
                  /\ CharAt(s, i) = "\n"
                  /\ \A j \in 1 .. (i - 1) : CharAt(s, j) # "\n"
       IN IF n > 1 /\ CharAt(s, n - 1) = "\r"
          THEN SubSeq(s, 1, n - 2)
          ELSE SubSeq(s, 1, n - 1)
  ELSE s

(* ------------------------------------------------------------------ paths *)

IsSep(c) == c \in {"\\", "/"}

HasSep(p) == \E i \in 1 .. Len(p) : IsSep(CharAt(p, i))

LastSep(p) ==
  CHOOSE i \in 1 .. Len(p) :
    /\ IsSep(CharAt(p, i))
    /\ \A j \in (i + 1) .. Len(p) : ~IsSep(CharAt(p, j))

\* path.dirname on Windows, for a relative name or a path below a directory
Dirname(p) == IF HasSep(p) THEN SubSeq(p, 1, LastSep(p) - 1) ELSE "."

\* path.join of a directory and one name on Windows
Join(dir, name) == IF dir = "." THEN name ELSE dir \o "\\" \o name

(* --------------------------------------------------------- version names *)

Digits == {"0", "1", "2", "3", "4", "5", "6", "7", "8", "9"}
HexDigits == Digits \cup {"a", "b", "c", "d", "e", "f"}

AllIn(s, set) == \A i \in 1 .. Len(s) : CharAt(s, i) \in set

\* /^\d{4}\.\d{1,2}\.\d{1,2}-[a-f0-9]+$/.test(name)
IsVersionName(name) ==
  \E m \in 1 .. 2, d \in 1 .. 2 :
    /\ Len(name) >= 8 + m + d
    /\ AllIn(SubSeq(name, 1, 4), Digits)
    /\ CharAt(name, 5) = "."
    /\ AllIn(SubSeq(name, 6, 5 + m), Digits)
    /\ CharAt(name, 6 + m) = "."
    /\ AllIn(SubSeq(name, 7 + m, 6 + m + d), Digits)
    /\ CharAt(name, 7 + m + d) = "-"
    /\ AllIn(SubSeq(name, 8 + m + d, Len(name)), HexDigits)

\* UTF-16 code units of the characters a version name is made of
CharCode(c) ==
  CASE c = "-" -> 45
    [] c = "." -> 46
    [] c \in Digits -> 48 + (CHOOSE n \in 0 .. 9 : CharAt("0123456789", n + 1) = c)
    [] c \in {"a", "b", "c", "d", "e", "f"} ->
         97 + (CHOOSE n \in 0 .. 5 : CharAt("abcdef", n + 1) = c)

\* a < b in the order Array.prototype.sort uses by default (by code unit)
RECURSIVE StrLess(_, _)
StrLess(a, b) ==
  IF Len(b) = 0 THEN FALSE
  ELSE IF Len(a) = 0 THEN TRUE
  ELSE IF CharAt(a, 1) = CharAt(b, 1)
       THEN StrLess(SubSeq(a, 2, Len(a)), SubSeq(b, 2, Len(b)))
       ELSE CharCode(CharAt(a, 1)) < CharCode(CharAt(b, 1))

\* entries.filter(name => /.../.test(name))
RECURSIVE FilterVersions(_)
FilterVersions(seq) ==
  IF seq = <<>> THEN <<>>
  ELSE (IF IsVersionName(Head(seq)) THEN <<Head(seq)>> ELSE <<>>)
         \o FilterVersions(Tail(seq))

\* insertion of one name into an ascending sequence
RECURSIVE Insert(_, _)
Insert(x, seq) ==
  IF seq = <<>> THEN <<x>>
  ELSE IF StrLess(x, Head(seq)) THEN <<x>> \o seq
  ELSE <<Head(seq)>> \o Insert(x, Tail(seq))

\* Array.prototype.sort with no comparator
RECURSIVE Sort(_)
Sort(seq) == IF seq = <<>> THEN <<>> ELSE Insert(Head(seq), Sort(Tail(seq)))

\* Array.prototype.reverse
Reverse(seq) == [i \in 1 .. Len(seq) |-> seq[Len(seq) + 1 - i]]

\* The version names sorted, the smallest first.
VersionsAscending(entries) == Sort(FilterVersions(entries))

\* entries.filter(...).sort().reverse()
Versions(entries) == Reverse(Sort(FilterVersions(entries)))

(* ------------------------------------------------------------ the inputs *)

\* Commands the callers ask for.
Cmds == {"agent", "C:\\cursor\\agent.cmd", "tool.bat", "node"}

\* Argument lists the callers pass.
ArgLists == {<<>>, <<"-p", "hi">>}

\* opts.stdin: absent, the empty string, a text.
StdinValues == {NoString, Str(""), Str("in")}

\* opts.timeoutMs: absent, zero, negative, not a number, positive.
TimeoutValues == {Undefined, Num(0), Num(-1), NaN, Num(5)}

\* process.platform
Platforms == {"win32", "linux"}

\* process.env.COMSPEC: unset, empty, set.
ComspecValues == {NoString, Str(""), Str("C:\\Windows\\cmd.exe")}

\* What `where agent` may print on its standard output, one chunk at a time.
WhereChunks ==
  { "C:\\cursor\\agent.cmd\r\n",
    "C:\\cursor\\agent\r\nC:\\cursor\\agent.cmd\r\n" }

\* What readdir(versionsDir) may resolve with.
DirListings ==
  { <<>>,
    <<"2024.1.2-abc123", "2024.10.1-def456">>,
    <<"2024.10.1-def456", "latest", "2024.1.2-abc123">>,
    <<"2024.1.2-xyz", "node.exe">> }

\* How spawn of the target may end: started, the two asynchronous start
\* failures (an error event follows), a synchronous throw.
SpawnOutcomes == {"ok", "ENOENT", "EACCES", "throw"}

\* How spawn of the `where` lookup may end.
WhereOutcomes == {"ok", "ENOENT", "throw"}

\* Exit codes a child may end with by itself; Null when a signal ended it.
ExitCodes == {Num(0), Num(1), Null}

(* -------------------------------------------------------------- the state *)

VARIABLES
  platform,   \* process.platform
  COMSPEC,    \* process.env.COMSPEC
  pc,         \* pc[i]: where invocation i of run stands
  req,        \* req[i]: cmd, args and opts of invocation i (NoReq: never called)
  where,      \* where[i]: the `where` lookup of invocation i, with its text s
  listed,     \* listed[i]: the directories invocation i passed to readdir
  dirEntries, \* dirEntries[i]: the names readdir gave invocation i
  spawned,    \* spawned[i]: the calls of spawn invocation i made, in order
  resolved,   \* resolved[i]: what resolveWindowsCursorAgent returned
  child,      \* child[i]: pid of the child invocation i spawned, 0 when none
  promise,    \* promise[i]: the promise run returned
  settles,    \* settles[i]: how often promise[i] changed its state
  stdout,     \* stdout[i]: the stdout accumulator of invocation i
  stderr,     \* stderr[i]: the stderr accumulator of invocation i
  timer,      \* timer[i]: the timeout timer of invocation i
  nextPid,    \* the pid the next spawned target gets
  proc,       \* proc[p]: the operating system's view of child p
  kills,      \* the calls of child.kill made so far
  plugin      \* the plugin's load: its inputs and where it stands

vars ==
  << platform, COMSPEC, pc, req, where, listed, dirEntries, spawned, resolved,
     child, promise, settles, stdout, stderr, timer, nextPid, proc, kills,
     plugin >>

NoReq == [cmd |-> "", args |-> <<>>, stdin |-> NoString, timeoutMs |-> Undefined]
NoRedirect == [some |-> FALSE, cmd |-> "", argsPrefix |-> <<>>]
NoResult == [code |-> Undefined, stdout |-> "", stderr |-> ""]
NoError == [code |-> "", message |-> ""]
NoWhere == [state |-> "none", n |-> 0, s |-> ""]
NoExit == [code |-> Undefined, signal |-> ""]
NoProc ==
  [ state |-> "none", owner |-> 0, file |-> "", args |-> <<>>, stdin |-> "",
    written |-> <<>>, ended |-> FALSE, n |-> 0, out |-> "", err |-> "",
    errno |-> "", exit |-> NoExit ]
Pending == [state |-> "pending", result |-> NoResult, error |-> NoError]

\* The plugin has not been loaded.
NoPlugin ==
  [ pc |-> "none", worktree |-> NoString, directory |-> NoString,
    env |-> [ OPENCODE_DIRECTORY |-> NoString, OPENCODE_WORKSPACE |-> NoString,
              INIT_CWD |-> NoString, PWD |-> NoString ],
    agentBin |-> "", cwd |-> NoString, error |-> "", bridge |-> FALSE ]

\* Every request a caller may make.
Requests ==
  { [cmd |-> c, args |-> a, stdin |-> sin, timeoutMs |-> t] :
      c \in Cmds, a \in ArgLists, sin \in StdinValues, t \in TimeoutValues }

\* The requests of the callers that run side by side.
ConcurrentRequests ==
  { [cmd |-> "node", args |-> <<>>, stdin |-> Str("in"), timeoutMs |-> Num(5)],
    [cmd |-> "agent", args |-> <<"-p", "hi">>, stdin |-> NoString,
     timeoutMs |-> Undefined] }

\* The state before any call of run, but for the requests to come.
Start ==
  /\ platform \in Platforms
  /\ pc = [i \in Invs |-> "idle"]
  /\ where = [i \in Invs |-> NoWhere]
  /\ listed = [i \in Invs |-> <<>>]
  /\ dirEntries = [i \in Invs |-> <<>>]
  /\ spawned = [i \in Invs |-> <<>>]
  /\ resolved = [i \in Invs |-> NoRedirect]
  /\ child = [i \in Invs |-> 0]
  /\ promise = [i \in Invs |-> Pending]
  /\ settles = [i \in Invs |-> 0]
  /\ stdout = [i \in Invs |-> ""]
  /\ stderr = [i \in Invs |-> ""]
  /\ timer = [i \in Invs |-> "none"]
  /\ nextPid = 1
  /\ proc = [p \in Pids |-> NoProc]
  /\ kills = {}

\* One caller: a single call of run, with any request.
Init ==
  /\ Start
  /\ COMSPEC \in ComspecValues
  /\ plugin = NoPlugin
  /\ \E r \in Requests : req = [i \in Invs |-> IF i = 1 THEN r ELSE NoReq]

\* Callers side by side: every invocation is called, in one environment.
InitConcurrent ==
  /\ Start
  /\ COMSPEC = Str("C:\\Windows\\cmd.exe")
  /\ plugin = NoPlugin
  /\ req \in [Invs -> ConcurrentRequests]

(* ------------------------------------------------------------ the promise *)

\* A promise whose last call of resolve or reject wins.
SettleLast(p, outcome) == outcome

\* resolve and reject of a promise: the first call settles it, later calls
\* do nothing.
Settle(p, outcome) == IF p.state = "pending" THEN outcome ELSE p

Fulfilled(result) == [state |-> "fulfilled", result |-> result, error |-> NoError]
Rejected(error) == [state |-> "rejected", result |-> NoResult, error |-> error]

\* promise[i] after one more call of resolve or reject, with the count kept
SettleInv(i, outcome) ==
  /\ promise' = [promise EXCEPT ![i] = Settle(promise[i], outcome)]
  /\ settles' = [settles EXCEPT ![i] =
                   IF Settle(promise[i], outcome) # promise[i] THEN @ + 1 ELSE @]

(* ------------------------------------------- resolveWindowsCursorAgent *)

\* A spawn that is attempted a second time.
SpawnedAgain(log, file, args) ==
  Append(Append(log, [file |-> file, args |-> args]), [file |-> file, args |-> args])

\* spawn(file, args, ...): the calls of spawn made so far, this one included
Spawned(log, file, args) == Append(log, [file |-> file, args |-> args])


\* The guards of resolveWindowsCursorAgent: resolution is tried on Windows
\* for a command that ends with agent.cmd or is the bare name agent.
NeedsResolve(cmd) ==
  /\ platform = "win32"
  /\ (EndsWith(cmd, "agent.cmd") \/ cmd = "agent")

\* join(dirname(agentPath), "versions")
VersionsDir(agentPath) == Join(Dirname(agentPath), "versions")

\* The redirection for the entries readdir gave: node.exe and index.js of
\* the first of the sorted, reversed version names; none when there is none.
Redirect(versionsDir, entries) ==
  LET versions == Versions(entries)
  IN IF Len(versions) > 0
     THEN [ some |-> TRUE,
            cmd |-> Join(Join(versionsDir, versions[1]), "node.exe"),
            argsPrefix |-> << Join(Join(versionsDir, versions[1]), "index.js") >> ]
     ELSE NoRedirect

\* What the `where` promise resolves with: s.trim().split(/\r?\n/)[0]
WhereResult(s) == FirstLine(Trim(s))

\* run(cmd, args, opts) is called with req[i]: the synchronous start of
\* resolveWindowsCursorAgent, up to its first await (of the `where` lookup
\* or of readdir) or to its return.  Invocations are numbered in the order
\* of their calls.
Call(i) ==
  /\ pc[i] = "idle"
  /\ req[i] # NoReq
  /\ \A j \in Invs : j < i => pc[j] # "idle"
  /\ IF ~NeedsResolve(req[i].cmd)
     THEN /\ pc' = [pc EXCEPT ![i] = "resolved"]
          /\ UNCHANGED << where, listed, spawned >>
     ELSE IF req[i].cmd = "agent"
     THEN \E o \in WhereOutcomes :
            /\ spawned' = [spawned EXCEPT ![i] = Spawned(@, "where", <<"agent">>)]
            /\ where' = [where EXCEPT ![i].state =
                           CASE o = "ok" -> "running"
                             [] o = "ENOENT" -> "spawnfail"
                             [] o = "throw" -> "threw"]
            \* a synchronous throw of spawn is caught: return null
            /\ pc' = [pc EXCEPT ![i] = IF o = "throw" THEN "resolved" ELSE "where"]
            /\ UNCHANGED listed
     ELSE /\ pc' = [pc EXCEPT ![i] = "readdir"]
          /\ listed' = [listed EXCEPT ![i] = Append(@, VersionsDir(req[i].cmd))]
          /\ UNCHANGED << where, spawned >>
  /\ UNCHANGED << platform, COMSPEC, plugin, dirEntries,
                  req, resolved, child, promise, settles, stdout,
                  stderr, timer, nextPid, proc, kills >>

\* A lookup whose promise is resolved by the first output, not by close:
\* the resolution goes on while the `where` subprocess still runs.
WhereDataResolves(i) ==
  /\ pc[i] = "where"
  /\ where[i].state = "running"
  /\ where[i].n < MaxWhereChunks
  /\ \E c \in WhereChunks :
       /\ where' = [where EXCEPT ![i].s = @ \o c, ![i].n = @ + 1]
       /\ IF EndsWith(WhereResult(where[i].s \o c), "agent.cmd")
          THEN /\ pc' = [pc EXCEPT ![i] = "readdir"]
               /\ listed' = [listed EXCEPT ![i] =
                               Append(@, VersionsDir(WhereResult(where[i].s \o c)))]
          ELSE /\ pc' = [pc EXCEPT ![i] = "resolved"]
               /\ UNCHANGED listed
  /\ UNCHANGED << platform, COMSPEC, plugin, spawned, dirEntries,
                  req, resolved, child, promise, settles, stdout,
                  stderr, timer, nextPid, proc, kills >>

\* where.stdout.on("data", c => s += c)
WhereData(i) ==
  /\ pc[i] = "where"
  /\ where[i].state = "running"
  /\ where[i].n < MaxWhereChunks
  /\ \E c \in WhereChunks :
       where' = [where EXCEPT ![i].s = @ \o c, ![i].n = @ + 1]
  /\ UNCHANGED << platform, COMSPEC, plugin, spawned, dirEntries,
                  pc, req, listed, resolved, child, promise, settles,
                  stdout, stderr, timer, nextPid, proc, kills >>

\* where.on("close", ...) and the code that follows the await of its promise
WhereClose(i) ==
  /\ pc[i] = "where"
  /\ where[i].state = "running"
  /\ where' = [where EXCEPT ![i].state = "closed"]
  /\ LET out == WhereResult(where[i].s)
     IN IF out # "" /\ EndsWith(out, "agent.cmd")
        THEN /\ pc' = [pc EXCEPT ![i] = "readdir"]
             /\ listed' = [listed EXCEPT ![i] = Append(@, VersionsDir(out))]
        ELSE /\ pc' = [pc EXCEPT ![i] = "resolved"]
             /\ UNCHANGED listed
  /\ UNCHANGED << platform, COMSPEC, plugin, spawned, dirEntries,
                  req, resolved, child, promise, settles, stdout,
                  stderr, timer, nextPid, proc, kills >>

\* The `where` lookup could not be started: its child emits an error event.
\* No listener for it is registered, so the event is thrown as an uncaught
\* exception, outside the try block; the child emits no close event, and the
\* promise the resolution awaits is never resolved.
WhereError(i) ==
  /\ pc[i] = "where"
  /\ where[i].state = "spawnfail"
  /\ where' = [where EXCEPT ![i].state = "failed"]
  /\ pc' = [pc EXCEPT ![i] = "uncaught"]
  /\ UNCHANGED << platform, COMSPEC, plugin, spawned, dirEntries,
                  req, listed, resolved, child, promise, settles,
                  stdout, stderr, timer, nextPid, proc, kills >>

\* readdir(versionsDir) settles: a rejection becomes [] (the catch), and the
\* rest of resolveWindowsCursorAgent runs to its return.
ReaddirDone(i) ==
  /\ pc[i] = "readdir"
  /\ \E rejects \in BOOLEAN, listing \in DirListings :
       LET names == IF rejects THEN <<>> ELSE listing
       IN /\ dirEntries' = [dirEntries EXCEPT ![i] = names]
          /\ resolved' = [resolved EXCEPT ![i] =
                            Redirect(listed[i][Len(listed[i])], names)]
  /\ pc' = [pc EXCEPT ![i] = "resolved"]
  /\ UNCHANGED << platform, COMSPEC, plugin, spawned,
                  req, where, listed, child, promise, settles, stdout,
                  stderr, timer, nextPid, proc, kills >>

(* -------------------------------------------------------------------- run *)

\* An interpreter that is cmd.exe whatever the environment says.
InterpreterDefault(comspec) == "cmd.exe"

\* process.env.COMSPEC || "cmd.exe"
Interpreter(comspec) == IF TruthyStr(comspec) THEN comspec.v ELSE "cmd.exe"

\* actualCmd and actualArgs: the redirection when there is one, the command
\* interpreter for a script or the bare name agent on Windows, the command
\* itself otherwise.
Dispatch(cmd, args, res, comspec) ==
  IF res.some
  THEN [file |-> res.cmd, args |-> res.argsPrefix \o args]
  ELSE IF /\ platform = "win32"
          /\ (EndsWith(cmd, ".cmd") \/ EndsWith(cmd, ".bat") \/ cmd = "agent")
  THEN [file |-> Interpreter(comspec), args |-> <<"/d", "/s", "/c", cmd>> \o args]
  ELSE [file |-> cmd, args |-> args]

\* A standard input that is always piped.
StdinModePipe(sin) == "pipe"

\* stdio[0]: opts.stdin ? "pipe" : "ignore"
StdinMode(sin) == IF TruthyStr(sin) THEN "pipe" ELSE "ignore"

\* if (opts.stdin && child.stdin): child.stdin exists for a piped stdin only
WritesStdin(sin, mode) == TruthyStr(sin) /\ mode = "pipe"

\* A timer armed for every number, also 0, a negative one and NaN.
ArmsTimerForNumbers(t) == IsNumber(t)

\* typeof timeoutMs === "number" && timeoutMs > 0 ? setTimeout(...) : undefined
ArmsTimer(t) == IsNumber(t) /\ GreaterThanZero(t)

\* The environment variables getCursorAgentBin reads, in its order, for the
\* path of the binary to run in place of the default, agent.
OverrideVars == {"CURSOR_AGENT_BIN", "CURSOR_CLI_BIN", "CURSOR_CLI_PATH"}

\* A message that gives no hint of how to point at another binary.
NotFoundMessageBare(cmd) == "Command not found: " \o cmd \o "."

\* The message of the error run makes of a start failure with code ENOENT.
NotFoundMessage(cmd) ==
  "Command not found: " \o cmd
    \o ". Install Cursor CLI (agent) or set CURSOR_AGENT_BIN to its path."

\* An error listener that passes every error on as it is.
RejectionForRaw(err, cmd) == [state |-> "rejected", result |-> NoResult, error |-> err]

\* A listener that wraps every error in a new Error, whatever its code.
RejectionForWrapped(err, cmd) ==
  Rejected([code |-> "", message |-> "Command failed: " \o cmd \o ": " \o err.message])

\* The error listener's choice: a new Error for ENOENT, the error itself
\* for every other code.
RejectionFor(err, cmd) ==
  IF err.code = "ENOENT"
  THEN Rejected([code |-> "", message |-> NotFoundMessage(cmd)])
  ELSE Rejected(err)

\* A close listener that reports no output.
ResultOfNoOutput(code, out, err) ==
  [code |-> Coalesce(code, Num(0)), stdout |-> "", stderr |-> ""]

\* A close listener that reports success whatever the exit code.
ResultOfZero(code, out, err) == [code |-> Num(0), stdout |-> out, stderr |-> err]

\* The close listener's result: { code: code ?? 0, stdout, stderr }
ResultOf(code, out, err) ==
  [code |-> Coalesce(code, Num(0)), stdout |-> out, stderr |-> err]

\* A listener that leaves the timer as it is.
ClearTimeoutSkipped(t) == t

\* clearTimeout(timeout): an armed timer is disarmed, anything else stays
ClearTimeout(t) == IF t = "armed" THEN "cleared" ELSE t

\* An accumulator that puts the newest chunk first.
AccumulatePrepend(acc, i, c) == [acc EXCEPT ![i] = c \o @]

\* An accumulator kept outside the closure, shared by all invocations.
AccumulateShared(acc, i, c) == [j \in Invs |-> acc[j] \o c]

\* acc += c in the closure of invocation i
Accumulate(acc, i, c) == [acc EXCEPT ![i] = @ \o c]

\* A timer that kills the child spawned last, whoever spawned it.
KillTargetLast(i) == nextPid - 1

\* The child a timer's callback kills: the child of its own closure.
KillTarget(i) == child[i]

\* A signal the child may catch and ignore: it goes on running.
KilledNot(p) == proc

\* The children after SIGKILL was sent to the running child p: the signal
\* cannot be caught, the child ends with no exit code.
Killed(p) ==
  [proc EXCEPT ![p].state = "exited",
               ![p].exit = [code |-> Null, signal |-> "SIGKILL"]]

\* The error a failed system call is reported with.
SysError(syscall, code) == [code |-> code, message |-> syscall \o " " \o code]

\* libuv's negative error number, the code of the close event that follows
\* a start failure.
Errno(code) == IF code = "ENOENT" THEN Num(-2) ELSE Num(-13)

DigitStr(n) == CharAt("0123456789", n + 1)

\* The k-th chunk child p writes: every chunk of every child is different.
ChunkText(p, k) == "<" \o DigitStr(p) \o "." \o DigitStr(k) \o ">"

\* The continuation of run after the await of the resolution: dispatch, and
\* the executor of the returned promise (spawn, stdin, timer, listeners).
Launch(i) ==
  /\ pc[i] = "resolved"
  /\ pc' = [pc EXCEPT ![i] = "launched"]
  /\ LET d == Dispatch(req[i].cmd, req[i].args, resolved[i], COMSPEC)
     IN spawned' = [spawned EXCEPT ![i] = Spawned(@, d.file, d.args)]
  /\ \E o \in SpawnOutcomes :
       LET d == Dispatch(req[i].cmd, req[i].args, resolved[i], COMSPEC)
           mode == StdinMode(req[i].stdin)
           p == nextPid
       IN IF o = "throw"
          THEN \* spawn throws inside the executor: the promise is rejected
               /\ SettleInv(i, Rejected(SysError("spawn", "EPERM")))
               /\ UNCHANGED << child, timer, nextPid, proc >>
          ELSE /\ proc' = [proc EXCEPT ![p] =
                   [ state |-> IF o = "ok" THEN "running" ELSE "spawnfail",
                     owner |-> i, file |-> d.file, args |-> d.args,
                     stdin |-> mode,
                     written |-> IF WritesStdin(req[i].stdin, mode)
                                 THEN << req[i].stdin.v >> ELSE <<>>,
                     ended |-> WritesStdin(req[i].stdin, mode),
                     n |-> 0, out |-> "", err |-> "",
                     errno |-> IF o = "ok" THEN "" ELSE o,
                     exit |-> NoExit ]]
               /\ child' = [child EXCEPT ![i] = p]
               /\ nextPid' = p + 1
               /\ timer' = [timer EXCEPT ![i] =
                              IF ArmsTimer(req[i].timeoutMs) THEN "armed" ELSE "none"]
               /\ UNCHANGED << promise, settles >>
  /\ UNCHANGED << platform, COMSPEC, plugin, dirEntries,
                  req, where, listed, resolved, stdout, stderr, kills >>

\* child.stdout.on("data", (c) => (stdout += c))
StdoutData(i) ==
  /\ child[i] # 0
  /\ LET p == child[i]
         c == ChunkText(p, proc[p].n + 1)
     IN /\ proc[p].state \in {"running", "exited"}
        /\ proc[p].n < MaxChunks
        /\ proc' = [proc EXCEPT ![p].n = @ + 1, ![p].out = @ \o c]
        /\ stdout' = Accumulate(stdout, i, c)
  /\ UNCHANGED << platform, COMSPEC, plugin, spawned, dirEntries,
                  pc, req, where, listed, resolved, child, promise,
                  settles, stderr, timer, nextPid, kills >>

\* child.stderr.on("data", (c) => (stderr += c))
StderrData(i) ==
  /\ child[i] # 0
  /\ LET p == child[i]
         c == ChunkText(p, proc[p].n + 1)
     IN /\ proc[p].state \in {"running", "exited"}
        /\ proc[p].n < MaxChunks
        /\ proc' = [proc EXCEPT ![p].n = @ + 1, ![p].err = @ \o c]
        /\ stderr' = Accumulate(stderr, i, c)
  /\ UNCHANGED << platform, COMSPEC, plugin, spawned, dirEntries,
                  pc, req, where, listed, resolved, child, promise,
                  settles, stdout, timer, nextPid, kills >>

\* The child ends by itself, or by a signal that is not run's: no listener
\* is called yet, the close event follows when its streams are closed.
ChildExit(i) ==
  /\ child[i] # 0
  /\ proc[child[i]].state = "running"
  /\ \E c \in ExitCodes :
       proc' = [proc EXCEPT ![child[i]].state = "exited",
                            ![child[i]].exit =
                               [code |-> c, signal |-> IF c = Null THEN "SIGTERM" ELSE ""]]
  /\ UNCHANGED << platform, COMSPEC, plugin, spawned, dirEntries,
                  pc, req, where, listed, resolved, child, promise,
                  settles, stdout, stderr, timer, nextPid, kills >>

\* child.on("error", ...) for a child that could not be started
ChildError(i) ==
  /\ child[i] # 0
  /\ proc[child[i]].state = "spawnfail"
  /\ proc' = [proc EXCEPT ![child[i]].state = "failed"]
  /\ timer' = [timer EXCEPT ![i] = ClearTimeout(@)]
  /\ SettleInv(i, RejectionFor(SysError("spawn " \o proc[child[i]].file,
                                        proc[child[i]].errno), req[i].cmd))
  /\ UNCHANGED << platform, COMSPEC, plugin, spawned, dirEntries,
                  pc, req, where, listed, resolved, child, stdout,
                  stderr, nextPid, kills >>

\* The timer's callback: child.kill("SIGKILL").  A running child is ended
\* by the signal; when the signal cannot be sent, kill emits an error event
\* and the error listener runs at once; for a child that has ended already
\* kill does nothing.  The error event of a start failure is emitted before
\* any timer can fire.
TimerFire(i) ==
  /\ timer[i] = "armed"
  /\ proc[child[i]].state # "spawnfail"
  /\ timer' = [timer EXCEPT ![i] = "fired"]
  /\ LET p == KillTarget(i)
     IN \E sent \in BOOLEAN :
          IF proc[p].state = "running" /\ sent
          THEN /\ kills' = kills \cup {[by |-> i, pid |-> p, sig |-> "SIGKILL",
                                        result |-> "sent"]}
               /\ proc' = Killed(p)
               /\ UNCHANGED << promise, settles >>
          ELSE IF proc[p].state = "running"
          THEN /\ kills' = kills \cup {[by |-> i, pid |-> p, sig |-> "SIGKILL",
                                        result |-> "failed"]}
               /\ SettleInv(i, RejectionFor(SysError("kill", "EPERM"), req[i].cmd))
               /\ UNCHANGED proc
          ELSE /\ kills' = kills \cup {[by |-> i, pid |-> p, sig |-> "SIGKILL",
                                        result |-> "gone"]}
               /\ UNCHANGED << promise, settles, proc >>
  /\ UNCHANGED << platform, COMSPEC, plugin, spawned, dirEntries,
                  pc, req, where, listed, resolved, child, stdout,
                  stderr, nextPid >>

\* child.on("close", (code) => ...)
ChildClose(i) ==
  /\ child[i] # 0
  /\ proc[child[i]].state \in {"exited", "failed"}
  /\ proc' = [proc EXCEPT ![child[i]].state = "closed"]
  /\ timer' = [timer EXCEPT ![i] = ClearTimeout(@)]
  /\ LET code == IF proc[child[i]].state = "failed"
                 THEN Errno(proc[child[i]].errno)
                 ELSE proc[child[i]].exit.code
     IN SettleInv(i, Fulfilled(ResultOf(code, stdout[i], stderr[i])))
  /\ UNCHANGED << platform, COMSPEC, plugin, spawned, dirEntries,
                  pc, req, where, listed, resolved, child, stdout,
                  stderr, nextPid, kills >>

(* ------------------------------------------------------------- the plugin *)

\* path.sep
PathSep == IF platform = "win32" THEN "\\" ELSE "/"

\* process.cwd() of the plugin's host
ProcessCwd == "/srv"

\* The directories that exist; /work/notes.txt is a file, /gone is nothing.
Directories ==
  { "/work/app", "/srv/app", "/var/T/ws", "/tmp/cursor-openai-bridge-1",
    "/work/cursor-opencode-worktree-9" }

\* What the host may pass as worktree and as directory.
ArgValues ==
  { NoString, Str("  "), Str("/work/app/"), Str("/var/T/ws"), Str("/gone") }

\* What each of the four environment variables may hold.
EnvValues ==
  { NoString, Str(""), Str("app"), Str("/work/app"), Str("/work/notes.txt"),
    Str("/tmp/cursor-openai-bridge-1"), Str("/work/cursor-opencode-worktree-9") }

\* What the three variables of getCursorAgentBin may hold.
BinEnvs ==
  { [CURSOR_AGENT_BIN |-> NoString, CURSOR_CLI_BIN |-> NoString,
     CURSOR_CLI_PATH |-> NoString],
    [CURSOR_AGENT_BIN |-> Str(""), CURSOR_CLI_BIN |-> Str("/opt/cursor/agent"),
     CURSOR_CLI_PATH |-> Str("/usr/bin/agent")] }

RECURSIVE StripTrailingSep(_)
StripTrailingSep(p) ==
  IF Len(p) > 1 /\ CharAt(p, Len(p)) = "/"
  THEN StripTrailingSep(SubSeq(p, 1, Len(p) - 1))
  ELSE p

\* path.resolve(p) on POSIX, for a path without . and .. segments: a
\* relative path is taken below the working directory, trailing separators
\* are dropped.
Resolve(p) ==
  IF Len(p) > 0 /\ CharAt(p, 1) = "/"
  THEN StripTrailingSep(p)
  ELSE StripTrailingSep(ProcessCwd \o "/" \o p)

\* (await stat(p)).isDirectory(), false when stat fails
IsDirectory(p) == p \in Directories

LooksLikeTempDir(p) ==
  LET normalized == Resolve(p)
  IN \/ Includes(normalized, PathSep \o "T" \o PathSep)
     \/ Includes(normalized, "cursor-openai-bridge-")
     \/ Includes(normalized, "cursor-opencode-worktree-")

\* .filter(v => typeof v === "string" && v.trim().length > 0)
RECURSIVE NonBlank(_)
NonBlank(values) ==
  IF values = <<>>
  THEN <<>>
  ELSE IF Head(values).t = "string" /\ Len(Trim(Head(values).v)) > 0
  THEN << Head(values).v >> \o NonBlank(Tail(values))
  ELSE NonBlank(Tail(values))

\* The caller's candidates with the directory tried before the worktree.
PreferredDirectoryFirst(args) == NonBlank(<< args.directory, args.worktree >>)

\* preferred: [args.worktree, args.directory].filter(...)
Preferred(args) == NonBlank(<< args.worktree, args.directory >>)

\* envCandidates: [OPENCODE_DIRECTORY, OPENCODE_WORKSPACE, INIT_CWD, PWD].filter(...)
EnvCandidates(env) ==
  NonBlank(<< env.OPENCODE_DIRECTORY, env.OPENCODE_WORKSPACE, env.INIT_CWD,
              env.PWD >>)

\* The two loops of resolveWorkspaceRoot: the first candidate whose resolved
\* path is a directory, the temp-looking ones passed over in the second
\* loop; no string when the loop ends without a return.
RECURSIVE FirstDirectory(_, _)
FirstDirectory(cands, isEnv) ==
  IF cands = <<>>
  THEN NoString
  ELSE LET path == Resolve(Head(cands))
       IN IF isEnv /\ LooksLikeTempDir(path)
          THEN FirstDirectory(Tail(cands), isEnv)
          ELSE IF IsDirectory(path)
          THEN Str(path)
          ELSE FirstDirectory(Tail(cands), isEnv)

NoWorkspaceMessage ==
  "Could not determine a real workspace directory (got a temp cwd). " \o
  "Set CURSOR_BRIDGE_WORKSPACE to your project path, or ensure OpenCode " \o
  "passes directory/worktree to the plugin."

\* resolveWorkspaceRoot(args): the path returned, or no string for the throw
ResolveWorkspaceRoot(args, env) ==
  LET first == FirstDirectory(Preferred(args), FALSE)
  IN IF first # NoString THEN first ELSE FirstDirectory(EnvCandidates(env), TRUE)

\* process.env.CURSOR_AGENT_BIN || CURSOR_CLI_BIN || CURSOR_CLI_PATH || "agent"
GetCursorAgentBin(e) ==
  IF TruthyStr(e.CURSOR_AGENT_BIN) THEN e.CURSOR_AGENT_BIN.v
  ELSE IF TruthyStr(e.CURSOR_CLI_BIN) THEN e.CURSOR_CLI_BIN.v
  ELSE IF TruthyStr(e.CURSOR_CLI_PATH) THEN e.CURSOR_CLI_PATH.v
  ELSE "agent"

\* The variables of run, which the plugin's load leaves alone.
runVars ==
  << platform, COMSPEC, pc, req, where, listed, dirEntries, spawned, resolved,
     child, promise, settles, stdout, stderr, timer, nextPid, proc, kills >>

\* The host loads the plugin, on POSIX, with any worktree, directory and
\* environment; no call of run is made.
InitPlugin ==
  /\ Start
  /\ platform = "linux"
  /\ COMSPEC = NoString
  /\ req = [i \in Invs |-> NoReq]
  /\ \E w \in ArgValues, d \in ArgValues :
     \E e \in [ {"OPENCODE_DIRECTORY", "OPENCODE_WORKSPACE", "INIT_CWD", "PWD"}
                 -> EnvValues ] :
       plugin = [ NoPlugin EXCEPT !.pc = "idle", !.worktree = w,
                                  !.directory = d, !.env = e ]

\* CursorPlugin up to its second await: getCursorAgentBin, and
\* resolveWorkspaceRoot to its return or its throw, which rejects the load.
PluginResolve ==
  /\ plugin.pc = "idle"
  /\ \E b \in BinEnvs :
       LET root == ResolveWorkspaceRoot(
                     [worktree |-> plugin.worktree, directory |-> plugin.directory],
                     plugin.env)
       IN plugin' =
            IF root = NoString
            THEN [ plugin EXCEPT !.pc = "failed", !.agentBin = GetCursorAgentBin(b),
                                 !.error = NoWorkspaceMessage ]
            ELSE [ plugin EXCEPT !.pc = "shim", !.agentBin = GetCursorAgentBin(b),
                                 !.cwd = root ]
  /\ UNCHANGED runVars

\* await ensurePluginShowsVersionInStatus(client).catch(() => undefined):
\* it settles, and a rejection is dropped.
PluginShimSettled ==
  /\ plugin.pc = "shim"
  /\ plugin' = [ plugin EXCEPT !.pc = "bridge" ]
  /\ UNCHANGED runVars

\* ensureBridgeProcess(agentBin, cwd) is called.
PluginStartBridge ==
  /\ plugin.pc = "bridge"
  /\ plugin' = [ plugin EXCEPT !.pc = "starting", !.bridge = TRUE ]
  /\ UNCHANGED runVars

\* ensureBridgeProcess settles: the tools are returned, or its rejection
\* rejects the load.
PluginBridgeSettled ==
  /\ plugin.pc = "starting"
  /\ \E ok \in BOOLEAN :
       plugin' = IF ok
                 THEN [ plugin EXCEPT !.pc = "loaded" ]
                 ELSE [ plugin EXCEPT !.pc = "failed", !.error = "bridge" ]
  /\ UNCHANGED runVars

NextPlugin ==
  \/ PluginResolve
  \/ PluginShimSettled
  \/ PluginStartBridge
  \/ PluginBridgeSettled

(* ----------------------------------------------------- the specification *)

Next ==
  \E i \in Invs :
    \/ Call(i)
    \/ WhereData(i)
    \/ WhereClose(i)
    \/ WhereError(i)
    \/ ReaddirDone(i)
    \/ Launch(i)
    \/ StdoutData(i)
    \/ StderrData(i)
    \/ ChildExit(i)
    \/ ChildError(i)
    \/ TimerFire(i)
    \/ ChildClose(i)

Spec == Init /\ [][Next]_vars

SpecConcurrent == InitConcurrent /\ [][Next]_vars

\* The event loop delivers the close event of a child that has ended.
SpecFair == Spec /\ \A i \in Invs : WF_vars(ChildClose(i))

\* The load of the plugin.
SpecPlugin == InitPlugin /\ [][NextPlugin]_vars

(* -------------------------------------------------------------- the claims *)

\* The error event of invocation i's child has been delivered.
ErrorDelivered(i) ==
  /\ child[i] # 0
  /\ proc[child[i]].errno # ""
  /\ proc[child[i]].state \in {"failed", "closed"}

\* Invocation i's child was started and its close event has been delivered.
StartedAndClosed(i) ==
  /\ child[i] # 0
  /\ proc[child[i]].errno = ""
  /\ proc[child[i]].state = "closed"

\* The timer of invocation i sent its signal to a running child.
KilledByTimeout(i) ==
  \E k \in kills : k.by = i /\ k.pid = child[i] /\ k.result = "sent"

\* C1: the promise of a call settles at most once; it is fulfilled with a
\* RunResult only when the child was started and its close event occurred;
\* and once the error event of a child that could not be started is
\* delivered the promise is rejected and stays so, also after the close
\* event that follows.
C1_SettlesOnce ==
  \A i \in Invs :
    /\ settles[i] <= 1
    /\ (promise[i].state = "pending") = (settles[i] = 0)
    /\ promise[i].state = "fulfilled" => StartedAndClosed(i)
    /\ ErrorDelivered(i) =>
         /\ promise[i].state = "rejected"
         /\ promise[i].result = NoResult

\* A start failure whose error event was followed by the close event.
C1_Witness ==
  \E i \in Invs :
    /\ ErrorDelivered(i)
    /\ proc[child[i]].state = "closed"
    /\ promise[i].state = "rejected"

\* C2: once the timer of a call has fired, the promise of that call is
\* eventually settled (the call does not hang), given that the close event
\* of a child that has ended is delivered.
C2_TimeoutSettles ==
  \A i \in Invs : (timer[i] = "fired") ~> (promise[i].state # "pending")

\* The timer fired, the child was killed and the call resolved.
C2_Witness ==
  \E i \in Invs :
    /\ timer[i] = "fired"
    /\ KilledByTimeout(i)
    /\ promise[i].state = "fulfilled"

\* C3: a timer fires only for a positive timeoutMs; when it fires, SIGKILL
\* is sent to the child of its invocation; and every kill is SIGKILL, sent
\* by a timer that fired, to the child of that timer's own invocation.
C3_KillOnlyOwnChild ==
  /\ \A i \in Invs :
       timer[i] = "fired" =>
         /\ req[i].timeoutMs.t = "number" /\ req[i].timeoutMs.v > 0
         /\ \E k \in kills : k.by = i /\ k.pid = child[i] /\ k.sig = "SIGKILL"
  /\ \A k \in kills :
       /\ k.sig = "SIGKILL"
       /\ timer[k.by] = "fired"
       /\ k.pid # 0
       /\ k.pid = child[k.by]
       /\ proc[k.pid].owner = k.by

\* Two children run, and the timer of the first invocation killed its own.
C3_Witness ==
  /\ \A i \in Invs : child[i] # 0
  /\ \E k \in kills : k.by = 1 /\ k.result = "sent" /\ k.pid = child[1]

\* C4: a child killed by the timeout is never reported as an error, and
\* once its close event is delivered the call is resolved with the output
\* accumulated up to then, which is all the child wrote on each stream.
C4_TimeoutIsAResult ==
  \A i \in Invs :
    KilledByTimeout(i) =>
      /\ promise[i].state # "rejected"
      /\ proc[child[i]].state = "closed" =>
           /\ promise[i].state = "fulfilled"
           /\ promise[i].result.stdout = stdout[i]
           /\ promise[i].result.stderr = stderr[i]
           /\ promise[i].result.stdout = proc[child[i]].out
           /\ promise[i].result.stderr = proc[child[i]].err

\* A killed child that had written on both streams, resolved.
C4_Witness ==
  \E i \in Invs :
    /\ KilledByTimeout(i)
    /\ promise[i].state = "fulfilled"
    /\ promise[i].result.stdout # ""
    /\ promise[i].result.stderr # ""

\* C5: the code of a RunResult is the exit code the close event reported,
\* and it is 0 exactly when that code is 0 or none was reported.
C5_ExitCode ==
  \A i \in Invs :
    promise[i].state = "fulfilled" =>
      LET reported == proc[child[i]].exit.code
          code == promise[i].result.code
      IN /\ code.t = "number"
         /\ reported.t = "number" => code = reported
         /\ (code.v = 0) = (reported.t # "number" \/ reported.v = 0)

\* A call resolved for a child that ended with a non-zero exit code.
C5_Witness ==
  \E i \in Invs :
    /\ promise[i].state = "fulfilled"
    /\ proc[child[i]].exit.code = Num(1)
    /\ promise[i].result.code = Num(1)

\* The start of invocation i's child failed with ENOENT, and the error event
\* has been delivered.
NotFound(i) == ErrorDelivered(i) /\ proc[child[i]].errno = "ENOENT"

\* C6: when the command is not found the call is rejected with an error
\* whose message contains the command the caller asked for, whatever was
\* spawned in its place, and mentions an override variable.
C6_NotFoundNamesCommand ==
  \A i \in Invs :
    NotFound(i) =>
      /\ promise[i].state = "rejected"
      /\ Includes(promise[i].error.message, req[i].cmd)
      /\ \E v \in OverrideVars : Includes(promise[i].error.message, v)

\* Not found, for an invocation that spawned something else than its cmd,
\* whose name the message does not contain.
C6_Witness ==
  \E i \in Invs :
    /\ NotFound(i)
    /\ proc[child[i]].file # req[i].cmd
    /\ ~Includes(promise[i].error.message, proc[child[i]].file)

\* C7, as claimed: the error for a command that is not found names the
\* command and two of the environment variables that may point at another
\* binary.
C7_NamesTwoVariables ==
  \A i \in Invs :
    NotFound(i) =>
      /\ Includes(promise[i].error.message, req[i].cmd)
      /\ Cardinality({v \in OverrideVars :
                        Includes(promise[i].error.message, v)}) >= 2

\* C7: the error for a command that is not found names the command and one
\* of the environment variables that may point at another binary,
\* CURSOR_AGENT_BIN, and no other.
C7_NamesOneVariable ==
  \A i \in Invs :
    NotFound(i) =>
      /\ promise[i].state = "rejected"
      /\ Includes(promise[i].error.message, req[i].cmd)
      /\ {v \in OverrideVars : Includes(promise[i].error.message, v)}
           = {"CURSOR_AGENT_BIN"}

\* Not found, for a command that was spawned as it is.
C7_Witness ==
  \E i \in Invs :
    /\ NotFound(i)
    /\ proc[child[i]].file = req[i].cmd
    /\ promise[i].state = "rejected"
    /\ Includes(promise[i].error.message, "CURSOR_AGENT_BIN")

\* C8: no failure of the resolution step surfaces: a lookup that failed
\* leaves the invocation resolved without redirection or launched, never
\* with an exception outside the call.
C8_ResolutionNeverSurfaces ==
  \A i \in Invs :
    /\ pc[i] # "uncaught"
    /\ where[i].state \in {"failed", "threw"} =>
         /\ pc[i] \in {"resolved", "launched"}
         /\ ~resolved[i].some

\* All that belongs to invocation i: its own state and its child.
InvState(i) ==
  << pc[i], req[i], where[i], listed[i], resolved[i], child[i], promise[i],
     settles[i], stdout[i], stderr[i], timer[i],
     IF child[i] = 0 THEN NoProc ELSE proc[child[i]],
     {k \in kills : k.by = i \/ k.pid = child[i]} >>

\* No two invocations share a child, each accumulator holds what the
\* invocation's own child wrote, and a result holds the same.
OwnOutput ==
  \A i \in Invs :
    /\ \A j \in Invs : child[i] # 0 /\ child[i] = child[j] => i = j
    /\ child[i] # 0 =>
         /\ proc[child[i]].owner = i
         /\ stdout[i] = proc[child[i]].out
         /\ stderr[i] = proc[child[i]].err
    /\ promise[i].state = "fulfilled" =>
         /\ promise[i].result.stdout = proc[child[i]].out
         /\ promise[i].result.stderr = proc[child[i]].err

\* A step changes what belongs to one invocation at most.
OneAtATime ==
  \A i, j \in Invs :
    i # j => ~(InvState(i)' # InvState(i) /\ InvState(j)' # InvState(j))

\* C9: invocations in flight together are independent: each has its own
\* child, accumulators and timer, an event of one changes nothing of
\* another, and each resolves with the output of its own child.
C9_Independent == [](OwnOutput) /\ [][OneAtATime]_vars

\* Both calls resolved, each with output, after the timer of one fired.
C9_Witness ==
  /\ \A i \in Invs : promise[i].state = "fulfilled" /\ promise[i].result.stdout # ""
  /\ \E i \in Invs : KilledByTimeout(i)

\* C10, as claimed, for every supplied string, the empty one included: the
\* child's standard input is attached exactly when opts.stdin is a string;
\* a string is written in full once and the stream is ended; with none the
\* stream is not connected and nothing is written.
C10_StdinIffSupplied ==
  \A i \in Invs :
    child[i] # 0 =>
      LET p == proc[child[i]]
      IN IF req[i].stdin.t = "string"
         THEN p.stdin = "pipe" /\ p.written = << req[i].stdin.v >> /\ p.ended
         ELSE p.stdin = "ignore" /\ p.written = <<>> /\ ~p.ended

\* C10: the child's standard input is attached exactly when opts.stdin is a
\* string that is not empty; that text is written in full once and the
\* stream is ended at once; with no text or the empty text the stream is
\* not connected and nothing is written.
C10_StdinIffNonEmpty ==
  \A i \in Invs :
    child[i] # 0 =>
      LET p == proc[child[i]]
      IN IF req[i].stdin.t = "string" /\ req[i].stdin.v # ""
         THEN p.stdin = "pipe" /\ p.written = << req[i].stdin.v >> /\ p.ended
         ELSE p.stdin = "ignore" /\ p.written = <<>> /\ ~p.ended

\* A child that was given its input text in one write.
C10_Witness ==
  \E i \in Invs :
    /\ child[i] # 0
    /\ req[i].stdin = Str("in")
    /\ proc[child[i]].stdin = "pipe"
    /\ proc[child[i]].written = << "in" >>
    /\ proc[child[i]].ended

\* The call of spawn that starts the `where` lookup.
IsLookup(call) == call.file = "where" /\ call.args = << "agent" >>

\* The positions in spawned[i] of the attempts to start the requested program.
Attempts(i) == { k \in 1..Len(spawned[i]) : ~IsLookup(spawned[i][k]) }

\* The positions in spawned[i] of the `where` lookups.
Lookups(i) == { k \in 1..Len(spawned[i]) : IsLookup(spawned[i][k]) }

\* C11: an invocation of run attempts to start the requested program at most
\* once: before the launch it has made no attempt, from the launch on it has
\* made exactly one, whatever became of the child (start failure, exit code
\* other than 0, kill by the timeout); at most one process is its child; the
\* only other spawn it may make is one `where` lookup, and only for the bare
\* command agent.
C11_OneAttempt ==
  \A i \in Invs :
    /\ Cardinality(Attempts(i)) = IF pc[i] = "launched" THEN 1 ELSE 0
    /\ Cardinality({ p \in Pids : proc[p].owner = i }) <= 1
    /\ Cardinality(Lookups(i)) <= 1
    /\ Lookups(i) # {} => req[i].cmd = "agent"

\* A child that failed to start, one that ended with an exit code other than
\* 0 or one the timeout killed, closed, after the single attempt.
C11_Witness ==
  \E i \in Invs :
    /\ child[i] # 0
    /\ proc[child[i]].state = "closed"
    /\ \/ proc[child[i]].errno # ""
       \/ proc[child[i]].exit.code = Num(1)
       \/ KilledByTimeout(i)
    /\ Cardinality(Attempts(i)) = 1

\* The call of spawn invocation i made last.
LastSpawn(i) == spawned[i][Len(spawned[i])]

\* C12: when the resolution gave no redirection, the launch on Windows of a
\* command that ends with .cmd or .bat or is the bare name agent spawns the
\* interpreter COMSPEC names (cmd.exe when COMSPEC has no value) with the
\* arguments /d, /s, /c, the command, then the caller's arguments in their
\* order; in every other case the command itself is spawned with exactly the
\* caller's arguments.  The child the operating system got is that call.
C12_Dispatch ==
  \A i \in Invs :
    (pc[i] = "launched" /\ ~resolved[i].some) =>
      /\ IF /\ platform = "win32"
            /\ \/ EndsWith(req[i].cmd, ".cmd")
               \/ EndsWith(req[i].cmd, ".bat")
               \/ req[i].cmd = "agent"
         THEN /\ LastSpawn(i).file =
                   IF COMSPEC.t = "string" /\ COMSPEC.v # ""
                   THEN COMSPEC.v ELSE "cmd.exe"
              /\ LastSpawn(i).args =
                   << "/d", "/s", "/c", req[i].cmd >> \o req[i].args
         ELSE /\ LastSpawn(i).file = req[i].cmd
              /\ LastSpawn(i).args = req[i].args
      /\ child[i] # 0 =>
           /\ proc[child[i]].file = LastSpawn(i).file
           /\ proc[child[i]].args = LastSpawn(i).args

\* A script launched on Windows through the interpreter COMSPEC names, with
\* the caller's two arguments after the command.
C12_Witness ==
  \E i \in Invs :
    /\ pc[i] = "launched"
    /\ ~resolved[i].some
    /\ platform = "win32"
    /\ req[i].cmd = "tool.bat"
    /\ COMSPEC = Str("C:\\Windows\\cmd.exe")
    /\ child[i] # 0
    /\ proc[child[i]].file = "C:\\Windows\\cmd.exe"
    /\ proc[child[i]].args = << "/d", "/s", "/c", "tool.bat", "-p", "hi" >>

\* The entries readdir gave invocation i that are version names.
Matching(i) ==
  { dirEntries[i][k] : k \in { n \in 1..Len(dirEntries[i]) :
                                 IsVersionName(dirEntries[i][n]) } }

\* Invocation i has read its versions directory.
HasListed(i) == listed[i] # <<>> /\ pc[i] \in {"resolved", "launched"}

\* The directory of version name v below the versions directory of i.
VersionDirOf(i, v) == listed[i][Len(listed[i])] \o "\\" \o v

\* C13: once the versions directory is read, the redirection names the
\* greatest, in lexicographic order, of its entries that are version names,
\* never an entry that is none, and there is no redirection without such an
\* entry; the launch then spawns node.exe of that version's directory with
\* its index.js before the caller's arguments, their order kept.  Between
\* 2024.1.2-abc123 and 2024.10.1-def456 the choice is 2024.10.1-def456.
C13_LatestVersion ==
  \A i \in Invs :
    HasListed(i) =>
      /\ resolved[i].some = (Matching(i) # {})
      /\ resolved[i].some =>
           \E latest \in Matching(i) :
             /\ \A v \in Matching(i) : v = latest \/ StrLess(v, latest)
             /\ resolved[i].cmd = VersionDirOf(i, latest) \o "\\node.exe"
             /\ resolved[i].argsPrefix =
                  << VersionDirOf(i, latest) \o "\\index.js" >>
             /\ pc[i] = "launched" =>
                  /\ LastSpawn(i).file = VersionDirOf(i, latest) \o "\\node.exe"
                  /\ LastSpawn(i).args =
                       << VersionDirOf(i, latest) \o "\\index.js" >> \o req[i].args
             /\ Matching(i) = {"2024.1.2-abc123", "2024.10.1-def456"} =>
                  latest = "2024.10.1-def456"

\* A launch redirected to version 2024.10.1-def456, chosen from a directory
\* that holds an older version and an entry that is no version name.
C13_Witness ==
  \E i \in Invs :
    /\ pc[i] = "launched"
    /\ dirEntries[i] = << "2024.10.1-def456", "latest", "2024.1.2-abc123" >>
    /\ child[i] # 0
    /\ proc[child[i]].file = "C:\\cursor\\versions\\2024.10.1-def456\\node.exe"
    /\ proc[child[i]].args =
         << "C:\\cursor\\versions\\2024.10.1-def456\\index.js", "-p", "hi" >>

\* The `where` lookup of invocation i failed (it could not be started) or
\* ended with a first line that does not end with agent.cmd.
LookupFailed(i) ==
  \/ where[i].state \in {"failed", "threw"}
  \/ /\ where[i].state = "closed"
     /\ ~EndsWith(WhereResult(where[i].s), "agent.cmd")

\* C14: for the bare command agent on Windows, a lookup that failed or gave
\* no path ending with agent.cmd leaves the resolution abandoned: no
\* versions directory was read, there is no redirection, and run goes on to
\* launch the command itself (agent, through the interpreter on Windows).
C14_LookupFallsThrough ==
  \A i \in Invs :
    LookupFailed(i) =>
      /\ listed[i] = <<>>
      /\ ~resolved[i].some
      /\ pc[i] \in {"resolved", "launched"}
      /\ pc[i] = "launched" =>
           LastSpawn(i).args = << "/d", "/s", "/c", "agent" >> \o req[i].args

\* The close or the error event of invocation i's child has been delivered.
Terminated(i) ==
  child[i] # 0 /\ proc[child[i]].state \in {"failed", "closed"}

\* No timer is armed for a child whose close or error event was delivered.
Disarmed == \A i \in Invs : Terminated(i) => timer[i] # "armed"

\* The kills invocation i has made.
KillsBy(i, ks) == { k \in ks : k.by = i }

\* A step makes no kill for an invocation whose promise is settled, nor for
\* one whose child's close or error event was delivered, and the timer of
\* such an invocation does not fire.
NoKillOnceSettled ==
  \A i \in Invs :
    (promise[i].state # "pending" \/ Terminated(i)) =>
      /\ KillsBy(i, kills') = KillsBy(i, kills)
      /\ timer'[i] = "fired" => timer[i] = "fired"

\* C15: the close and the error event of the child disarm the timer of its
\* invocation, whatever ended the child: from then on the timer is not
\* armed and does not fire, and no kill is made once the promise is settled.
C15_TimerDisarmed == [](Disarmed) /\ [][NoKillOnceSettled]_vars

\* A child that ended before its timeout: the close event cleared the
\* armed timer, and no kill was made.
C15_Witness ==
  \E i \in Invs :
    /\ Terminated(i)
    /\ ArmsTimer(req[i].timeoutMs)
    /\ timer[i] = "cleared"
    /\ promise[i].state # "pending"
    /\ KillsBy(i, kills) = {}

\* opts.timeoutMs of invocation i is absent, 0, negative or not a number.
NoTimeout(i) ==
  \/ req[i].timeoutMs.t # "number"
  \/ req[i].timeoutMs.v <= 0

\* Without a timeout no timer exists and no kill was made.
NeverArmed ==
  \A i \in Invs :
    (req[i] # NoReq /\ NoTimeout(i)) => timer[i] = "none" /\ KillsBy(i, kills) = {}

\* Without a timeout the promise settles in the step that delivers the
\* close or the error event of the child, or in the launch when spawn
\* itself throws and there is no child.
SettlesByChildOnly ==
  \A i \in Invs :
    (req[i] # NoReq /\ NoTimeout(i) /\ promise'[i] # promise[i]) =>
      \/ /\ child[i] # 0
         /\ proc[child[i]].state \in {"spawnfail", "exited", "failed"}
         /\ proc'[child[i]].state \in {"failed", "closed"}
      \/ child[i] = 0 /\ child'[i] = 0 /\ pc[i] = "resolved" /\ pc'[i] = "launched"

IsPrefix(s, t) == Len(s) <= Len(t) /\ SubSeq(t, 1, Len(s)) = s

\* Each accumulator only grows at its end, and a step in which the child
\* wrote on one stream leaves the accumulator of the other as it was.
AppendOnly ==
  \A i \in Invs :
    /\ IsPrefix(stdout[i], stdout'[i])
    /\ IsPrefix(stderr[i], stderr'[i])
    /\ child[i] # 0 =>
         /\ proc'[child[i]].out # proc[child[i]].out => stderr'[i] = stderr[i]
         /\ proc'[child[i]].err # proc[child[i]].err => stdout'[i] = stdout[i]

\* Each accumulator is what the child wrote on its stream, in the order of
\* arrival, and a RunResult carries exactly that.
StreamsKept ==
  \A i \in Invs :
    /\ child[i] # 0 =>
         stdout[i] = proc[child[i]].out /\ stderr[i] = proc[child[i]].err
    /\ promise[i].state = "fulfilled" =>
         /\ promise[i].result.stdout = proc[child[i]].out
         /\ promise[i].result.stderr = proc[child[i]].err

\* C17: the stdout and stderr accumulators are append-only (each value is a
\* prefix of every later one), a chunk of one stream is never added to the
\* accumulator of the other, and at resolution each field of the RunResult
\* is the concatenation, in arrival order, of all chunks of its stream.
C17_Accumulators == [](StreamsKept) /\ [][AppendOnly]_vars

\* A result that carries two chunks of stdout in their order of arrival
\* and nothing of stderr.
C17_Witness ==
  \E i \in Invs :
    /\ promise[i].state = "fulfilled"
    /\ promise[i].result.stdout = ChunkText(child[i], 1) \o ChunkText(child[i], 2)
    /\ promise[i].result.stderr = ""

\* The error the operating system reported for the start of invocation i's
\* child: the payload of the child's error event.
StartError(i) ==
  SysError("spawn " \o proc[child[i]].file, proc[child[i]].errno)

\* C18: once the error event of a start failure whose code is not ENOENT is
\* delivered, the promise is rejected with that very error, its code and
\* its message as the operating system gave them, not wrapped in another.
C18_OtherErrorsUnchanged ==
  \A i \in Invs :
    (ErrorDelivered(i) /\ proc[child[i]].errno # "ENOENT") =>
      /\ promise[i].state = "rejected"
      /\ promise[i].error = StartError(i)
      /\ promise[i].error.code = proc[child[i]].errno

\* A child that could not be started for lack of permission (EACCES): the
\* promise is rejected with the error of the event.
C18_Witness ==
  \E i \in Invs :
    /\ ErrorDelivered(i)
    /\ proc[child[i]].errno = "EACCES"
    /\ req[i].cmd = "node"
    /\ promise[i].state = "rejected"
    /\ promise[i].error = [code |-> "EACCES", message |-> "spawn node EACCES"]

\* The resolution step of invocation i is complete: the function has
\* returned and its `where` subprocess, when there was one, is closed or
\* was never started.
ResolutionDone(i) ==
  /\ pc[i] \in {"resolved", "launched"}
  /\ where[i].state \in {"none", "closed", "threw"}

\* The program has been spawned, and the timer exists, only with the
\* resolution complete; a timer exists only from the launch on; the lookup
\* comes before the attempt in the order of the spawns.
LaunchAfterResolution ==
  \A i \in Invs :
    /\ (child[i] # 0 \/ Attempts(i) # {}) => pc[i] = "launched" /\ ResolutionDone(i)
    /\ timer[i] # "none" => child[i] # 0 /\ pc[i] = "launched"
    /\ \A k \in Lookups(i), a \in Attempts(i) : k < a

\* The timer is armed in the step that spawns the child, and that step
\* starts with the resolution complete.
ArmedAtLaunch ==
  \A i \in Invs :
    /\ (timer[i] # "armed" /\ timer'[i] = "armed") => child[i] = 0 /\ child'[i] # 0
    /\ child'[i] # child[i] => pc[i] = "resolved" /\ ResolutionDone(i)

\* C19: the steps of one invocation are ordered: the program is spawned
\* only after the resolution step is complete, the close of the `where`
\* subprocess included, and the timer is armed at the launch of the child,
\* never before: the timeout covers the child, not the resolution.
C19_Ordered == [](LaunchAfterResolution) /\ [][ArmedAtLaunch]_vars

\* A child launched with an armed timer after a `where` lookup that ran
\* and closed.
C19_Witness ==
  \E i \in Invs :
    /\ where[i].state = "closed"
    /\ Lookups(i) = {1}
    /\ Attempts(i) = {2}
    /\ child[i] # 0
    /\ timer[i] = "armed"

\* The candidates of the plugin's load in the order of the claim: worktree,
\* directory, then the four environment variables.
Candidates ==
  << plugin.worktree, plugin.directory, plugin.env.OPENCODE_DIRECTORY,
     plugin.env.OPENCODE_WORKSPACE, plugin.env.INIT_CWD, plugin.env.PWD >>

\* Candidate k comes from the environment.
FromEnv(k) == k > 2

\* Candidate k is not blank, names an existing directory and, when it comes
\* from the environment, does not look like a temp directory.
Qualifies(k) ==
  /\ Candidates[k].t = "string"
  /\ Trim(Candidates[k].v) # ""
  /\ Resolve(Candidates[k].v) \in Directories
  /\ FromEnv(k) => ~LooksLikeTempDir(Candidates[k].v)

\* C20: once resolveWorkspaceRoot has ended, the workspace is the resolved
\* path of the first candidate, in the order worktree, directory,
\* OPENCODE_DIRECTORY, OPENCODE_WORKSPACE, INIT_CWD, PWD, that is not blank
\* and is an existing directory, where a candidate from the environment
\* that looks like a temp directory does not count and one the caller gave
\* counts whatever it looks like; with no such candidate the function has
\* thrown, the load has failed and the bridge process is never started.
C20_WorkspaceRoot ==
  plugin.pc \notin {"none", "idle"} =>
    IF \E k \in 1..6 : Qualifies(k)
    THEN LET first == CHOOSE k \in 1..6 :
                        Qualifies(k) /\ \A j \in 1..(k - 1) : ~Qualifies(j)
         IN /\ plugin.cwd = Str(Resolve(Candidates[first].v))
            /\ plugin.error # NoWorkspaceMessage
            /\ FromEnv(first) => ~LooksLikeTempDir(plugin.cwd.v)
    ELSE /\ plugin.pc = "failed"
         /\ plugin.error = NoWorkspaceMessage
         /\ plugin.cwd = NoString
         /\ ~plugin.bridge

\* A load whose worktree is a temp-looking directory and whose directory
\* is another existing one: the worktree is the workspace, and the bridge
\* was started.
C20_Witness ==
  /\ plugin.worktree = Str("/var/T/ws")
  /\ plugin.directory = Str("/work/app/")
  /\ plugin.cwd = Str("/var/T/ws")
  /\ plugin.bridge

====
